---------------------------- MODULE Spec2Model ----------------------------
(***************************************************************************)
(* A model of ml_tools: numerical helpers for Gaussian-process workflows.  *)
(*                                                                         *)
(* Every function of the library is a transform of its arguments, so each  *)
(* group of functions is modelled as a small caller session: Init draws    *)
(* the arguments from bounded sets, and one action per function applies    *)
(* it and stores what the caller then observes (the value returned or the  *)
(* exception raised, and the arguments as they are after the call).        *)
(*                                                                         *)
(* Real numbers are exact rationals <<n, d>>; floating-point rounding is   *)
(* outside the model.  n-dimensional arrays are records of a shape, a      *)
(* dtype and a function from index tuples (0-based, as in numpy) to        *)
(* elements.                                                               *)
(***************************************************************************)
EXTENDS Integers, Sequences, FiniteSets, TLC

VARIABLES
    \* flattening.py: one flatten_and_summarise / reconstruct_np session
    input_arrays, flattened, summaries, reconstructed, flat_pc,
    \* lin_alg.py and tensorflow.lo_tri_from_elements: the caller's vector and
    \* matrix, the lower-triangular matrices built, and the latest call with
    \* its array arguments as they were before it and as they are after it
    vec, target_size, pos_def_mat, L_np, L_tf, lin_call, lin_ret, lin_calls,
    \* normals.py: a normal as first built, the multiply and divide calls made
    \* in turn (each on the result of the one before), the normal each
    \* returned, and how the latest call ended
    normal0, norm_ops, norm_trace, norm_status,
    \* the conjugate updates of normals.py and autograd.py: the arguments
    \* of a session and what each of the three functions handed back
    m_km1, P_km1, H, m_obs, var_obs, ret_conjugate, ret_normals, ret_autograd,
    \* the kernels of kernels.py and jax_kernels.py: the arguments of a
    \* session, the kernel last called and what it handed back
    x1, x2, lengthscales, alpha, kern_jitter, kern_fn, kern_ret,
    \* the entry points that check shapes: the one last called, the shapes
    \* of its array arguments and the exception it ended in (None: returned)
    entry, entry_shapes, entry_exc,
    \* autograd.fit_laplace_approximation: its arguments, what
    \* scipy.optimize.minimize handed back, how often it was called, where
    \* the call stands and what it returned
    neg_log_posterior_fun, start_val, result, minimize_calls, lap_pc, lap_ret,
    \* tensorflow.newton_optimize: its arguments (objective stands for fun,
    \* jac and hess), the loop variables f (newton_f) and difference, where
    \* the call stands, and what happened so far: the steps taken, the
    \* evaluations of hess and jac and whether a step had a norm <= tolerance
    objective, start_f, tolerance, newton_f, difference, newton_pc, steps, evaluations, within

flatVars == <<input_arrays, flattened, summaries, reconstructed, flat_pc>>
linVars  == <<vec, target_size, pos_def_mat, L_np, L_tf, lin_call, lin_ret, lin_calls>>

normVars == <<normal0, norm_ops, norm_trace, norm_status>>

updArgs == <<m_km1, P_km1, H, m_obs, var_obs>>
updVars == <<updArgs, ret_conjugate, ret_normals, ret_autograd>>

kernArgs == <<x1, x2, lengthscales, alpha, kern_jitter>>
kernVars == <<kernArgs, kern_fn, kern_ret>>

entryVars == <<entry, entry_shapes, entry_exc>>

lapVars == <<neg_log_posterior_fun, start_val, result, minimize_calls, lap_pc, lap_ret>>

newtonArgs == <<objective, start_f, tolerance>>
newtonVars == <<newtonArgs, newton_f, difference, newton_pc, steps, evaluations, within>>

vars == <<flatVars, linVars, normVars, updVars, kernVars, entryVars, lapVars, newtonVars>>

\* What the actions of one group leave alone: the other groups.
notFlat == <<linVars, normVars, updVars, kernVars, entryVars, lapVars,
            newtonVars>>
notLin  == <<flatVars, normVars, updVars, kernVars, entryVars, lapVars,
            newtonVars>>
notNorm == <<flatVars, linVars, updVars, kernVars, entryVars, lapVars,
            newtonVars>>
notUpd  == <<flatVars, linVars, normVars, kernVars, entryVars, lapVars,
            newtonVars>>
notKern == <<flatVars, linVars, normVars, updVars, entryVars, lapVars,
            newtonVars>>
notEntry == <<flatVars, linVars, normVars, updVars, kernVars, lapVars,
            newtonVars>>
notLap == <<flatVars, linVars, normVars, updVars, kernVars, entryVars,
            newtonVars>>
notNewton == <<flatVars, linVars, normVars, updVars, kernVars, entryVars, lapVars>>

None == "None"

\* What a call hands back to its caller: a value, or the exception raised.
Return(v) == [exc |-> None, val |-> v]
Raise(e)  == [exc |-> e, val |-> None]

-----------------------------------------------------------------------------
(***************************************************************************)
(* Exact rational arithmetic: <<n, d>> with d > 0 and gcd(n, d) = 1.       *)
(***************************************************************************)

Abs(n) == IF n < 0 THEN -n ELSE n

RECURSIVE GCD(_, _)
GCD(a, b) == IF b = 0 THEN a ELSE GCD(b, a % b)

Rat(n, d) ==
    LET g == GCD(Abs(n), Abs(d))
        s == IF d < 0 THEN -1 ELSE 1
    IN <<(s * n) \div g, (s * d) \div g>>

Q(n) == <<n, 1>>

Zero == Q(0)
One  == Q(1)

RAdd(a, b) == Rat(a[1] * b[2] + b[1] * a[2], a[2] * b[2])
RNeg(a)    == <<-a[1], a[2]>>
RSub(a, b) == RAdd(a, RNeg(b))
RMul(a, b) == Rat(a[1] * b[1], a[2] * b[2])
\* b is not zero
RDiv(a, b) == Rat(a[1] * b[2], a[2] * b[1])
RLt(a, b)  == a[1] * b[2] < b[1] * a[2]
RLe(a, b)  == a[1] * b[2] <= b[1] * a[2]
RAbs(a)    == <<Abs(a[1]), a[2]>>

IsSquare(n) == n >= 0 /\ \E r \in 0..n : r * r = n
ISqrt(n)    == CHOOSE r \in 0..n : r * r = n

\* The square root of a rational that has a rational one.
HasRSqrt(a) == IsSquare(a[1]) /\ IsSquare(a[2])
RSqrt(a)    == <<ISqrt(a[1]), ISqrt(a[2])>>

\* The sum of f[i] over i in lo..hi.
RECURSIVE RSum(_, _, _)
RSum(f, lo, hi) == IF hi < lo THEN Zero ELSE RAdd(RSum(f, lo, hi - 1), f[hi])

-----------------------------------------------------------------------------
(***************************************************************************)
(* Shapes and index arithmetic (numpy's C order).                          *)
(***************************************************************************)

\* Largest extent of one axis of an input array.
MaxExtent == 2

\* Largest number of named arrays handed to flatten_and_summarise.
MaxNames == 2

RECURSIVE SeqProd(_)
SeqProd(s) == IF Len(s) = 0 THEN 1 ELSE SeqProd(SubSeq(s, 1, Len(s) - 1)) * s[Len(s)]

RECURSIVE SeqMax(_)
SeqMax(s) == IF Len(s) = 0 THEN 0
             ELSE LET m == SeqMax(SubSeq(s, 1, Len(s) - 1))
                  IN IF s[Len(s)] > m THEN s[Len(s)] ELSE m

\* The index tuples of an array of this shape.
Indices(shape) ==
    {idx \in [1..Len(shape) -> 0..(SeqMax(shape) - 1)] :
        \A i \in 1..Len(shape) : idx[i] < shape[i]}

\* np.ravel_multi_index in C order: the last axis varies fastest.
RECURSIVE RavelIndex(_, _)
RavelIndex(idx, shape) ==
    IF Len(shape) = 0 THEN 0
    ELSE RavelIndex(SubSeq(idx, 1, Len(idx) - 1), SubSeq(shape, 1, Len(shape) - 1))
             * shape[Len(shape)] + idx[Len(idx)]

\* np.unravel_index in C order.
RECURSIVE UnravelIndex(_, _)
UnravelIndex(k, shape) ==
    IF Len(shape) = 0 THEN <<>>
    ELSE Append(UnravelIndex(k \div shape[Len(shape)], SubSeq(shape, 1, Len(shape) - 1)),
                k % shape[Len(shape)])

NDArray(shape, dtype, elts) == [shape |-> shape, dtype |-> dtype, elts |-> elts]

\* A name not yet bound to an array.
NoArray == NDArray(<<>>, None, <<>>)

\* A 1-D array from a sequence of elements.
Vector(dtype, s) == NDArray(<<Len(s)>>, dtype, [idx \in Indices(<<Len(s)>>) |-> s[idx[1] + 1]])

\* ndarray.size
Size(a) == SeqProd(a.shape)

\* y.reshape(-1) and np.reshape(a, shape): the elements in C order, re-indexed.
\* numpy raises ValueError when the sizes differ (CanReshape).
CanReshape(a, shape) == Size(a) = SeqProd(shape)

Reshape(a, shape) ==
    NDArray(shape, a.dtype,
            [idx \in Indices(shape) |->
                a.elts[UnravelIndex(RavelIndex(idx, shape), a.shape)]])

\* a[lo:hi] of a 1-D array, with Python's clamping of the bounds.
Slice(a, lo, hi) ==
    LET n == a.shape[1]
        l == IF lo > n THEN n ELSE lo
        h == IF hi > n THEN n ELSE hi
        m == IF h > l THEN h - l ELSE 0
    IN NDArray(<<m>>, a.dtype, [idx \in Indices(<<m>>) |-> a.elts[<<idx[1] + l>>]])

\* numpy's result_type over int64 and float64 arrays.
ResultType(dtypes) == IF "float64" \in dtypes THEN "float64" ELSE "int64"

\* ndarray.astype: every model value is below 2^53, where int64 -> float64
\* keeps the value.
AsType(v, dtype) == v

RECURSIVE SumSizes(_)
SumSizes(arrs) == IF Len(arrs) = 0 THEN 0 ELSE arrs[1].shape[1] + SumSizes(Tail(arrs))

\* The piece and the offset in it of element k of the concatenation.
RECURSIVE Locate(_, _, _)
Locate(arrs, k, i) ==
    IF k < arrs[i].shape[1] THEN <<i, k>> ELSE Locate(arrs, k - arrs[i].shape[1], i + 1)

\* np.concatenate of a list of 1-D arrays; an empty list raises ValueError
\* ("need at least one array to concatenate").
Concatenate(arrs) ==
    IF Len(arrs) = 0 THEN Raise("ValueError")
    ELSE LET n  == SumSizes(arrs)
             dt == ResultType({arrs[i].dtype : i \in 1..Len(arrs)})
         IN Return(NDArray(<<n>>, dt,
                    [idx \in Indices(<<n>>) |->
                        LET at == Locate(arrs, idx[1], 1)
                        IN AsType(arrs[at[1]].elts[<<at[2]>>], dt)]))

-----------------------------------------------------------------------------
(***************************************************************************)
(* flattening.py.  An OrderedDict is a sequence of <<name, value>> pairs   *)
(* with distinct names.                                                    *)
(***************************************************************************)

array_info(shape) == [shape |-> shape]

extract_info(array) == array_info(array.shape)

flatten_and_summarise(arrays) ==
    LET summ == [i \in 1..Len(arrays) |-> <<arrays[i][1], extract_info(arrays[i][2])>>]
        flat == Concatenate([i \in 1..Len(arrays) |->
                                Reshape(arrays[i][2], <<Size(arrays[i][2])>>)])
    IN IF flat.exc # None THEN flat ELSE Return(<<flat.val, summ>>)

\* The length of the leading axis only.
LeadingExtent(shape) == IF Len(shape) = 0 THEN 1 ELSE shape[1]

\* int(np.prod(cur_summary.shape)); np.prod of the empty tuple is 1.
NumElements(shape) == SeqProd(shape)

RECURSIVE reconstruct(_, _)
reconstruct(flat_array, summ) ==
    IF Len(summ) = 0 THEN Return(<<>>)
    ELSE LET cur_name      == summ[1][1]
             cur_summary   == summ[1][2]
             cur_elements  == NumElements(cur_summary.shape)
             cur_slice     == Slice(flat_array, 0, cur_elements)
             remaining     == SelectSeq(summ, LAMBDA p : p[1] # cur_name)
             rest          == reconstruct(Slice(flat_array, cur_elements, flat_array.shape[1]),
                                          remaining)
         IN IF ~CanReshape(cur_slice, cur_summary.shape) THEN Raise("ValueError")
            ELSE IF rest.exc # None THEN rest
            ELSE Return(<<<<cur_name, Reshape(cur_slice, cur_summary.shape)>>>> \o rest.val)

reconstruct_np(flat_array, summ) == reconstruct(flat_array, summ)

\* The names a caller may use, in keyword order.
ArgNames == <<"a", "b", "c", "d">>

\* Scalars, vectors and matrices, zero-length axes included.
Shapes ==
    {<<>>} \cup {<<n>> : n \in 0..MaxExtent}
           \cup {<<n, m>> : n \in 0..MaxExtent, m \in 0..MaxExtent}

DTypes == {"int64", "float64"}

\* The k-th argument: distinct elements, so that a misplaced element shows.
FillArray(k, shape, dtype) ==
    NDArray(shape, dtype, [idx \in Indices(shape) |-> 100 * k + RavelIndex(idx, shape)])

InputDicts(n) ==
    {[i \in 1..n |-> <<ArgNames[i], FillArray(i, sh[i], dt[i])>>] :
        sh \in [1..n -> Shapes], dt \in [1..n -> DTypes]}

FlatInit ==
    /\ \E n \in 0..MaxNames : input_arrays \in InputDicts(n)
    /\ flattened = None
    /\ summaries = None
    /\ reconstructed = None
    /\ flat_pc = "start"

FlattenAndSummarise ==
    /\ flat_pc = "start"
    /\ LET r == flatten_and_summarise(input_arrays)
       IN IF r.exc # None
          THEN /\ flat_pc' = r.exc
               /\ UNCHANGED <<flattened, summaries>>
          ELSE /\ flat_pc' = "flattened"
               /\ flattened' = r.val[1]
               /\ summaries' = r.val[2]
    /\ UNCHANGED <<input_arrays, reconstructed, notFlat>>

ReconstructNp ==
    /\ flat_pc = "flattened"
    /\ LET r == reconstruct_np(flattened, summaries)
       IN IF r.exc # None
          THEN flat_pc' = r.exc /\ UNCHANGED reconstructed
          ELSE flat_pc' = "done" /\ reconstructed' = r.val
    /\ UNCHANGED <<input_arrays, flattened, summaries, notFlat>>

FlatNext == FlattenAndSummarise \/ ReconstructNp

FlatIdle ==
    /\ input_arrays = None
    /\ flattened = None
    /\ summaries = None
    /\ reconstructed = None
    /\ flat_pc = None

\* The names of an ordered dict, in order.
Keys(d) == [i \in 1..Len(d) |-> d[i][1]]

\* The reconstructed dict has the names, shapes and elements of the input.
SameAsInput ==
    /\ Keys(reconstructed) = Keys(input_arrays)
    /\ \A i \in 1..Len(input_arrays) :
          /\ reconstructed[i][2].shape = input_arrays[i][2].shape
          /\ reconstructed[i][2].elts = input_arrays[i][2].elts

\* C1 as stated: every set of named arrays, the empty one included, goes
\* through flatten_and_summarise and reconstruct_np and comes back with the
\* same names, shapes and elements.
C1_RoundTripEverySet ==
    /\ flat_pc \in {"start", "flattened", "done"}
    /\ flat_pc = "done" => SameAsInput

\* C1 amended: every non-empty set of named arrays comes back with the same
\* names, shapes and elements, held in the dtype np.concatenate promoted the
\* arrays to; with no array at all flatten_and_summarise raises ValueError,
\* and that is the only input that raises.
C1_RoundTripNonEmpty ==
    /\ flat_pc \in {"start", "flattened", "done", "ValueError"}
    /\ flat_pc = "ValueError" <=> (Len(input_arrays) = 0 /\ flat_pc # "start")
    /\ flat_pc = "done" =>
          /\ SameAsInput
          /\ \A i \in 1..Len(input_arrays) :
                reconstructed[i][2].dtype =
                    ResultType({input_arrays[j][2].dtype : j \in 1..Len(input_arrays)})

\* Two arrays of different rank and dtype, the first a 2 x 2 matrix, have
\* made the round trip.
C1_Witness ==
    /\ flat_pc = "done"
    /\ Len(input_arrays) = 2
    /\ input_arrays[1][2].shape = <<2, 2>>
    /\ input_arrays[2][2].shape = <<2>>
    /\ input_arrays[1][2].dtype # input_arrays[2][2].dtype
    /\ reconstructed[2][2].elts[<<1>>] = 201

-----------------------------------------------------------------------------
(***************************************************************************)
(* Matrices of rationals.                                                  *)
(***************************************************************************)

\* The index pairs of an n x m matrix, and the matrix of given elements.
Idx2(n, m) == Indices(<<n, m>>)
\* The elements of a matrix or vector, held by value.  (TLC evaluates a
\* function expression anew at every application until the function has been
\* compared with another, hence the comparison.)
ByValue(elts) == LET held == elts IN IF held = held THEN held ELSE <<>>

Matrix(n, m, elts) == NDArray(<<n, m>>, "float64", ByValue(elts))

\* np.zeros((n, m)) and np.eye(n)
Zeros(n, m) == Matrix(n, m, [p \in Idx2(n, m) |-> Zero])
Eye(n)      == Matrix(n, n, [p \in Idx2(n, n) |-> IF p[1] = p[2] THEN One ELSE Zero])

Transpose(A) ==
    Matrix(A.shape[2], A.shape[1],
           [p \in Idx2(A.shape[2], A.shape[1]) |-> A.elts[<<p[2], p[1]>>]])

MatMul(A, B) ==
    Matrix(A.shape[1], B.shape[2],
           [p \in Idx2(A.shape[1], B.shape[2]) |->
               RSum([k \in 1..A.shape[2] |->
                        RMul(A.elts[<<p[1], k - 1>>], B.elts[<<k - 1, p[2]>>])],
                    1, A.shape[2])])

MatAdd(A, B) ==
    Matrix(A.shape[1], A.shape[2],
           [p \in Idx2(A.shape[1], A.shape[2]) |-> RAdd(A.elts[p], B.elts[p])])
MatSub(A, B) ==
    Matrix(A.shape[1], A.shape[2],
           [p \in Idx2(A.shape[1], A.shape[2]) |-> RSub(A.elts[p], B.elts[p])])
MatScale(A, c) ==
    Matrix(A.shape[1], A.shape[2],
           [p \in Idx2(A.shape[1], A.shape[2]) |-> RMul(A.elts[p], c)])

-----------------------------------------------------------------------------
(***************************************************************************)
(* lin_alg.py and tensorflow.lo_tri_from_elements.                         *)
(***************************************************************************)

\* Largest target_size of a session.
MaxSize == 3

\* Most calls a session makes.
MaxCalls == 3

\* The same positions column after column.
RECURSIVE TrilColumnsFrom(_, _)
TrilColumnsFrom(n, j) ==
    IF j >= n THEN <<>>
    ELSE [i \in 1..(n - j) |-> <<j + i - 1, j>>] \o TrilColumnsFrom(n, j + 1)

TrilIndicesByColumn(n) == TrilColumnsFrom(n, 0)

\* np.tril_indices(n) as the sequence of its (row, column) pairs: the
\* positions on and below the diagonal, row after row.
RECURSIVE TrilIndices(_)
TrilIndices(n) ==
    IF n = 0 THEN <<>>
    ELSE TrilIndices(n - 1) \o [j \in 1..n |-> <<n - 1, j - 1>>]

\* L = np.zeros((n, n)); L[np.tril_indices(n)] = vec
\* An indexed assignment: each listed position takes its element of vec (the
\* last one, were a position listed twice).
LowerTriFromVector(v, n) ==
    LET at == TrilIndices(n)
    IN Matrix(n, n, [p \in Idx2(n, n) |->
                  LET ks == {k \in 1..Len(at) : at[k] = p}
                  IN IF ks = {} THEN Zero
                     ELSE v.elts[<<(CHOOSE k \in ks : \A l \in ks : l <= k) - 1>>]])

pos_def_mat_from_vector(v, n, jitter) ==
    LET L == LowerTriFromVector(v, n)
    IN MatAdd(MatMul(L, Transpose(L)), MatScale(Eye(n), jitter))

\* tf.scatter_nd(indices, updates, shape): zeros, plus each update added at
\* its index.
ScatterNd(indices, updates, n) ==
    Matrix(n, n, [p \in Idx2(n, n) |->
              RSum([k \in 1..Len(indices) |->
                       IF indices[k] = p THEN updates.elts[<<k - 1>>] ELSE Zero],
                   1, Len(indices))])

lo_tri_from_elements(elements, n) == ScatterNd(TrilIndices(n), elements, n)

num_triangular_elts(mat_size, include_diagonal) ==
    IF include_diagonal
    THEN (mat_size * (mat_size + 1)) \div 2
    ELSE (mat_size * (mat_size - 1)) \div 2

\* np.linalg.cholesky(A): the lower factor with a positive diagonal, read off
\* the lower triangle of A column by column; LinAlgError when a pivot is not
\* positive.  "Irrational" marks a factor outside the rationals.
RECURSIVE CholeskyColumns(_, _, _)
CholeskyColumns(A, L, j) ==
    LET n == A.shape[1]
        d == RSub(A.elts[<<j, j>>],
                  RSum([k \in 1..j |-> RMul(L.elts[<<j, k - 1>>], L.elts[<<j, k - 1>>])], 1, j))
    IN IF j = n THEN Return(L)
       ELSE IF RLe(d, Zero) THEN Raise("LinAlgError")
       ELSE IF ~HasRSqrt(d) THEN Raise("Irrational")
       ELSE LET ljj == RSqrt(d)
                col(i) == IF i = j THEN ljj
                          ELSE RDiv(RSub(A.elts[<<i, j>>],
                                         RSum([k \in 1..j |->
                                                  RMul(L.elts[<<i, k - 1>>], L.elts[<<j, k - 1>>])],
                                              1, j)),
                                    ljj)
            IN CholeskyColumns(A,
                   Matrix(n, n, [p \in Idx2(n, n) |->
                                    IF p[2] = j /\ p[1] >= j THEN col(p[1]) ELSE L.elts[p]]),
                   j + 1)

Cholesky(A) == CholeskyColumns(A, Zeros(A.shape[1], A.shape[1]), 0)

\* L[np.tril_indices_from(L)]
TakeTril(L) ==
    LET at == TrilIndices(L.shape[1])
    IN Vector("float64", [k \in 1..Len(at) |-> L.elts[at[k]]])

\* pos_def_mat -= np.eye(n) * jitter works in place: the caller's array is
\* the one updated.  Gives the array as the call leaves it and the outcome.
vector_from_pos_def_mat(mat, jitter) ==
    LET updated == MatSub(mat, MatScale(Eye(mat.shape[1]), jitter))
        L       == Cholesky(updated)
    IN [pos_def_mat |-> updated,
        outcome     |-> IF L.exc # None THEN L ELSE Return(TakeTril(L.val))]

Jitters == {Zero, One}

\* The caller's vectors: target_size * (target_size + 1) / 2 elements in
\* arithmetic progression, zero and negative elements included.
VecChoices(n) ==
    {Vector("float64", [k \in 1..num_triangular_elts(n, TRUE) |-> Q(b + (k - 1) * st)]) :
        b \in -1..2, st \in 0..2}

NoCall == [fn |-> None, before |-> <<>>, after |-> <<>>]

LinInit ==
    /\ target_size \in 1..MaxSize
    /\ vec \in VecChoices(target_size)
    /\ pos_def_mat = NoArray
    /\ L_np = NoArray
    /\ L_tf = NoArray
    /\ lin_call = NoCall
    /\ lin_ret = Return(None)
    /\ lin_calls = 0

LinIdle ==
    /\ target_size = None
    /\ vec = None
    /\ pos_def_mat = None
    /\ L_np = None
    /\ L_tf = None
    /\ lin_call = None
    /\ lin_ret = None
    /\ lin_calls = None

\* pos_def_mat = pos_def_mat_from_vector(vec, target_size, jitter)
CallPosDefMatFromVector ==
    /\ lin_calls < MaxCalls
    /\ \E jitter \in Jitters :
          /\ pos_def_mat' = pos_def_mat_from_vector(vec, target_size, jitter)
          /\ lin_ret' = Return(pos_def_mat')
    /\ L_np' = LowerTriFromVector(vec, target_size)
    /\ lin_call' = [fn |-> "pos_def_mat_from_vector", before |-> <<vec>>, after |-> <<vec>>]
    /\ lin_calls' = lin_calls + 1
    /\ UNCHANGED <<vec, target_size, L_tf, notLin>>

\* vector_from_pos_def_mat(pos_def_mat, jitter)
CallVectorFromPosDefMat ==
    /\ lin_calls < MaxCalls
    /\ pos_def_mat # NoArray
    /\ \E jitter \in Jitters :
          LET r == vector_from_pos_def_mat(pos_def_mat, jitter)
          IN /\ r.outcome.exc # "Irrational"
             /\ pos_def_mat' = r.pos_def_mat
             /\ lin_ret' = r.outcome
             /\ lin_call' = [fn |-> "vector_from_pos_def_mat",
                             before |-> <<pos_def_mat>>, after |-> <<r.pos_def_mat>>]
    /\ lin_calls' = lin_calls + 1
    /\ UNCHANGED <<vec, target_size, L_np, L_tf, notLin>>

\* lo_tri_from_elements(vec, target_size)
CallLoTriFromElements ==
    /\ lin_calls < MaxCalls
    /\ L_tf' = lo_tri_from_elements(vec, target_size)
    /\ lin_ret' = Return(L_tf')
    /\ lin_call' = [fn |-> "lo_tri_from_elements", before |-> <<vec>>, after |-> <<vec>>]
    /\ lin_calls' = lin_calls + 1
    /\ UNCHANGED <<vec, target_size, pos_def_mat, L_np, notLin>>

\* num_triangular_elts(target_size, include_diagonal)
CallNumTriangularElts ==
    /\ lin_calls < MaxCalls
    /\ \E include_diagonal \in BOOLEAN :
          /\ lin_ret' = Return(num_triangular_elts(target_size, include_diagonal))
          /\ lin_call' = [fn |-> "num_triangular_elts", before |-> <<include_diagonal>>,
                          after |-> <<include_diagonal>>]
    /\ lin_calls' = lin_calls + 1
    /\ UNCHANGED <<vec, target_size, pos_def_mat, L_np, L_tf, notLin>>

LinNext ==
    \/ CallPosDefMatFromVector
    \/ CallVectorFromPosDefMat
    \/ CallLoTriFromElements
    \/ CallNumTriangularElts

\* C2 as stated: whatever was called last, the arrays passed to it hold
\* after the call the values they held before it.
C2_ArgumentsUnchanged == lin_call.after = lin_call.before

\* The positions on and below the diagonal of an n x n matrix.
LowerPositions(n) == {p \in (0..(n - 1)) \X (0..(n - 1)) : p[2] <= p[1]}

\* How many of them come before (i, j), going row after row.
RowMajorRank(n, i, j) ==
    Cardinality({p \in LowerPositions(n) : p[1] < i \/ (p[1] = i /\ p[2] < j)})

FilledRowMajor(L) ==
    /\ L.shape = <<target_size, target_size>>
    /\ \A i, j \in 0..(target_size - 1) :
          L.elts[<<i, j>>] =
              IF j <= i THEN vec.elts[<<RowMajorRank(target_size, i, j)>>] ELSE Zero

\* C9: for a vector of num_triangular_elts(n, True) elements,
\* pos_def_mat_from_vector and lo_tri_from_elements build the same n x n
\* matrix L: the k-th element of the vector at the k-th position on or below
\* the diagonal, row after row, and zero above it; num_triangular_elts counts
\* those positions, n(n+1)/2 with the diagonal and n(n-1)/2 without.
C9_LowerTriangularFill ==
    /\ vec.shape = <<Cardinality(LowerPositions(target_size))>>
    /\ L_np # NoArray => FilledRowMajor(L_np)
    /\ L_tf # NoArray => FilledRowMajor(L_tf)
    /\ (L_np # NoArray /\ L_tf # NoArray) => L_np = L_tf
    /\ lin_call.fn = "num_triangular_elts" =>
          /\ lin_ret.val * 2 = IF lin_call.before[1]
                               THEN target_size * (target_size + 1)
                               ELSE target_size * (target_size - 1)
          /\ lin_ret.val = Cardinality({p \in LowerPositions(target_size) :
                                           lin_call.before[1] \/ p[2] < p[1]})

\* Both functions have built the 3 x 3 matrix of a vector of six distinct
\* elements.
C9_Witness ==
    /\ target_size = 3
    /\ L_np # NoArray /\ L_tf # NoArray
    /\ L_np.elts[<<2, 0>>] = vec.elts[<<3>>]
    /\ \A k, l \in 0..5 : k # l => vec.elts[<<k>>] # vec.elts[<<l>>]

-----------------------------------------------------------------------------
(***************************************************************************)
(* More linear algebra: vectors, determinants, inverses.                   *)
(***************************************************************************)

VecOf(n, elts) == NDArray(<<n>>, "float64", ByValue(elts))

Idx1(n) == Indices(<<n>>)

VecAdd(x, y) == VecOf(x.shape[1], [p \in Idx1(x.shape[1]) |-> RAdd(x.elts[p], y.elts[p])])
VecSub(x, y) == VecOf(x.shape[1], [p \in Idx1(x.shape[1]) |-> RSub(x.elts[p], y.elts[p])])
VecMul(x, y) == VecOf(x.shape[1], [p \in Idx1(x.shape[1]) |-> RMul(x.elts[p], y.elts[p])])
\* no element of y is zero
VecDiv(x, y) == VecOf(x.shape[1], [p \in Idx1(x.shape[1]) |-> RDiv(x.elts[p], y.elts[p])])
\* 1. / x, no element of x zero
VecRecip(x)  == VecOf(x.shape[1], [p \in Idx1(x.shape[1]) |-> RDiv(One, x.elts[p])])
HasZero(x)   == \E p \in Idx1(x.shape[1]) : x.elts[p] = Zero

\* np.matmul of a matrix and a 1-D array
MatVec(A, x) ==
    VecOf(A.shape[1],
          [p \in Idx1(A.shape[1]) |->
              RSum([k \in 1..A.shape[2] |-> RMul(A.elts[<<p[1], k - 1>>], x.elts[<<k - 1>>])],
                   1, A.shape[2])])

\* A without row i and column j.
Minor(A, i, j) ==
    LET n == A.shape[1]
    IN Matrix(n - 1, n - 1,
              [p \in Idx2(n - 1, n - 1) |->
                  A.elts[<<IF p[1] < i THEN p[1] ELSE p[1] + 1,
                           IF p[2] < j THEN p[2] ELSE p[2] + 1>>]])

RECURSIVE Det(_)
Det(A) ==
    LET n == A.shape[1]
    IN IF n = 0 THEN One
       ELSE RSum([k \in 1..n |->
                     RMul(IF (k - 1) % 2 = 0 THEN A.elts[<<0, k - 1>>]
                                              ELSE RNeg(A.elts[<<0, k - 1>>]),
                          Det(Minor(A, 0, k - 1)))],
                 1, n)

\* scipy.linalg.inv: LinAlgError for a singular matrix.
Inv(A) ==
    LET n == A.shape[1]
        d == Det(A)
    IN IF d = Zero THEN Raise("LinAlgError")
       ELSE Return(Matrix(n, n,
                [p \in Idx2(n, n) |->
                    LET c == Det(Minor(A, p[2], p[1]))
                    IN RDiv(IF (p[1] + p[2]) % 2 = 0 THEN c ELSE RNeg(c), d)]))

-----------------------------------------------------------------------------
(***************************************************************************)
(* normals.py: MultivariateNormal and DiagonalNormal.                      *)
(***************************************************************************)

\* Largest dimension of a normal.
MaxDim == 2

\* Most multiply and divide calls of a session.
MaxOps == 3

\* shape[k] (0-based) of an array: IndexError past the rank.
HasAxis(a, k) == k < Len(a.shape)

\* MultivariateNormal.__init__
MultivariateNormal(m, v_inv) ==
    IF ~HasAxis(v_inv, 0) \/ ~HasAxis(m, 0) THEN Raise("IndexError")
    ELSE IF v_inv.shape[1] # m.shape[1] THEN Raise("AssertionError")
    ELSE IF ~HasAxis(v_inv, 1) THEN Raise("IndexError")
    ELSE IF v_inv.shape[2] # m.shape[1] THEN Raise("AssertionError")
    ELSE Return([cls |-> "MultivariateNormal", m |-> m, v |-> v_inv])

\* MultivariateNormal.multiply
MvnMultiply(self, m2, v_inv2) ==
    LET m1 == self.m
        v_inv1 == self.v
        summed_inv == MatAdd(v_inv1, v_inv2)
        summed == Inv(summed_inv)
        pt1 == MatVec(MatMul(summed.val, v_inv1), m1)
        pt2 == MatVec(MatMul(summed.val, v_inv2), m2)
        new_m == VecAdd(pt1, pt2)
        new_v_inv == summed_inv
    IN IF summed.exc # None THEN summed ELSE MultivariateNormal(new_m, new_v_inv)

\* MultivariateNormal.divide with the two parts of the mean added.
MvnDivideAdding(self, m2, v_inv2) ==
    LET subtracted_inv == MatSub(self.v, v_inv2)
        subtracted == Inv(subtracted_inv)
    IN IF subtracted.exc # None THEN subtracted
       ELSE MultivariateNormal(VecAdd(MatVec(MatMul(subtracted.val, self.v), self.m),
                                      MatVec(MatMul(subtracted.val, v_inv2), m2)),
                               subtracted_inv)

\* MultivariateNormal.divide
MvnDivide(self, m2, v_inv2) ==
    LET m1 == self.m
        v_inv1 == self.v
        subtracted_inv == MatSub(v_inv1, v_inv2)
        subtracted == Inv(subtracted_inv)
        pt1 == MatVec(MatMul(subtracted.val, v_inv1), m1)
        pt2 == MatVec(MatMul(subtracted.val, v_inv2), m2)
        new_m == VecSub(pt1, pt2)
        new_v_inv == subtracted_inv
    IN IF subtracted.exc # None THEN subtracted ELSE MultivariateNormal(new_m, new_v_inv)

\* DiagonalNormal.__init__
DiagonalNormal(m, v) ==
    IF ~HasAxis(m, 0) \/ ~HasAxis(v, 0) THEN Raise("IndexError")
    ELSE IF m.shape[1] # v.shape[1] THEN Raise("AssertionError")
    ELSE IF SeqProd(v.shape) # m.shape[1] THEN Raise("AssertionError")
    ELSE Return([cls |-> "DiagonalNormal", m |-> m, v |-> v])

\* A division by zero in numpy arithmetic gives inf or nan (and a warning),
\* not an exception; the model does not follow non-finite values.
NonFinite == Raise("inf or nan")

\* DiagonalNormal.multiply
DiagMultiply(self, m2, v2) ==
    LET m1 == self.m
        v1 == self.v
    IN IF HasZero(v1) \/ HasZero(v2) THEN NonFinite
       ELSE LET prec == VecAdd(VecRecip(v1), VecRecip(v2))
            IN IF HasZero(prec) THEN NonFinite
               ELSE LET new_v == VecRecip(prec)
                        new_m == VecMul(new_v, VecAdd(VecDiv(m1, v1), VecDiv(m2, v2)))
                    IN DiagonalNormal(new_m, new_v)

\* DiagonalNormal.divide
DiagDivide(self, m2, v2) ==
    LET m1 == self.m
        v1 == self.v
    IN IF HasZero(v1) \/ HasZero(v2) THEN NonFinite
       ELSE LET prec == VecSub(VecRecip(v1), VecRecip(v2))
            IN IF HasZero(prec) THEN NonFinite
               ELSE LET new_v == VecRecip(prec)
                        new_m == VecMul(new_v, VecSub(VecDiv(m1, v1), VecDiv(m2, v2)))
                    IN DiagonalNormal(new_m, new_v)

\* obj.multiply(m2, p2) and obj.divide(m2, p2) of either class.
Apply(self, op, f) ==
    IF self.cls = "MultivariateNormal"
    THEN IF op = "multiply" THEN MvnMultiply(self, f.m, f.v) ELSE MvnDivide(self, f.m, f.v)
    ELSE IF op = "multiply" THEN DiagMultiply(self, f.m, f.v) ELSE DiagDivide(self, f.m, f.v)

\* The inputs of a session.  a * I + b * (all ones), and the vector
\* (c, c + st, c + 2 st, ...).
ScaledIdentityPlus(n, a, b) ==
    Matrix(n, n, [p \in Idx2(n, n) |-> IF p[1] = p[2] THEN Q(a + b) ELSE Q(b)])
Progression(n, c, st) == VecOf(n, [p \in Idx1(n) |-> Q(c + st * p[1])])

\* Precision matrices (MultivariateNormal), negative ones included so that a
\* sum of precisions can be singular.
Precisions(n) ==
    {ScaledIdentityPlus(n, 1, 0), ScaledIdentityPlus(n, 2, 1), ScaledIdentityPlus(n, -1, 0),
     ScaledIdentityPlus(n, -2, -1)}

\* Variance vectors (DiagonalNormal).
Variances(n) ==
    {Progression(n, 1, 0), Progression(n, 1, 1), Progression(n, -1, 0), Progression(n, -2, 1)}

Means(n) == {Progression(n, 1, 0), Progression(n, 0, 1)}

\* The factors a session multiplies and divides by: <<mean, precision>> for
\* a MultivariateNormal, <<mean, variance>> for a DiagonalNormal.
Factors(cls, n) ==
    IF cls = "MultivariateNormal"
    THEN <<[m |-> Progression(n, 1, 0), v |-> ScaledIdentityPlus(n, 1, 0)],
           [m |-> Progression(n, 2, -1), v |-> ScaledIdentityPlus(n, 1, 1)]>>
    ELSE <<[m |-> Progression(n, 1, 0), v |-> Progression(n, 1, 0)],
           [m |-> Progression(n, 2, -1), v |-> Progression(n, 2, 1)]>>

Dim(obj) == obj.m.shape[1]

NormInit ==
    /\ \E n \in 1..MaxDim :
          \/ \E m \in Means(n), v_inv \in Precisions(n) :
                normal0 = MultivariateNormal(m, v_inv).val
          \/ \E m \in Means(n), v \in Variances(n) :
                normal0 = DiagonalNormal(m, v).val
    /\ norm_ops = <<>>
    /\ norm_trace = <<>>
    /\ norm_status = None

NormIdle ==
    /\ normal0 = None
    /\ norm_ops = None
    /\ norm_trace = None
    /\ norm_status = None

\* The normal the next call is made on.
Current == IF Len(norm_trace) = 0 THEN normal0 ELSE norm_trace[Len(norm_trace)]

TheFactors == Factors(normal0.cls, Dim(normal0))

\* normal = normal.multiply(m2, p2)
Multiply ==
    /\ Len(norm_ops) < MaxOps
    /\ norm_status = None
    /\ \E k \in 1..Len(TheFactors) :
          LET r == Apply(Current, "multiply", TheFactors[k])
          IN /\ norm_status' = r.exc
             /\ norm_trace' = IF r.exc = None THEN Append(norm_trace, r.val) ELSE norm_trace
             /\ norm_ops' = Append(norm_ops, <<"multiply", k>>)
    /\ UNCHANGED <<normal0, notNorm>>

\* normal = normal.divide(m2, p2)
Divide ==
    /\ Len(norm_ops) < MaxOps
    /\ norm_status = None
    /\ \E k \in 1..Len(TheFactors) :
          LET r == Apply(Current, "divide", TheFactors[k])
          IN /\ norm_status' = r.exc
             /\ norm_trace' = IF r.exc = None THEN Append(norm_trace, r.val) ELSE norm_trace
             /\ norm_ops' = Append(norm_ops, <<"divide", k>>)
    /\ UNCHANGED <<normal0, notNorm>>

NormNext == Multiply \/ Divide

\* The normal the i-th call was made on.
Receiver(i) == IF i = 1 THEN normal0 ELSE norm_trace[i - 1]

\* The natural parameters: the precision and the precision times the mean.
Precision(cls, v) == IF cls = "MultivariateNormal" THEN v ELSE VecRecip(v)
PrecisionMean(cls, m, v) == IF cls = "MultivariateNormal" THEN MatVec(v, m) ELSE VecDiv(m, v)
Plus(cls, x, y, isMatrix) == IF cls = "MultivariateNormal" /\ isMatrix THEN MatAdd(x, y) ELSE VecAdd(x, y)
Minus(cls, x, y, isMatrix) == IF cls = "MultivariateNormal" /\ isMatrix THEN MatSub(x, y) ELSE VecSub(x, y)

\* The i-th call added (multiply) or subtracted (divide) the factor's
\* natural parameters.
MovedNaturalParameters(i) ==
    LET cls == normal0.cls
        f   == TheFactors[norm_ops[i][2]]
        old == Receiver(i)
        new == norm_trace[i]
    IN IF norm_ops[i][1] = "multiply"
       THEN /\ Precision(cls, new.v) = Plus(cls, Precision(cls, old.v), Precision(cls, f.v), TRUE)
            /\ PrecisionMean(cls, new.m, new.v) =
                   Plus(cls, PrecisionMean(cls, old.m, old.v), PrecisionMean(cls, f.m, f.v), FALSE)
       ELSE /\ Precision(cls, new.v) = Minus(cls, Precision(cls, old.v), Precision(cls, f.v), TRUE)
            /\ PrecisionMean(cls, new.m, new.v) =
                   Minus(cls, PrecisionMean(cls, old.m, old.v), PrecisionMean(cls, f.m, f.v), FALSE)

\* The calls ops made in turn from obj: the normal reached, or the failure.
RECURSIVE ApplyAll(_, _)
ApplyAll(obj, ops) ==
    IF Len(ops) = 0 THEN Return(obj)
    ELSE LET r == Apply(obj, ops[1][1], TheFactors[ops[1][2]])
         IN IF r.exc # None THEN r ELSE ApplyAll(r.val, Tail(ops))

Orderings(n) == {f \in [1..n -> 1..n] : \A i, j \in 1..n : f[i] = f[j] => i = j}

\* C6: dividing by the factor just multiplied by gives back the normal the
\* product was taken of; every defined multiply adds, and every defined
\* divide subtracts, the factor's precision and precision-times-mean; and a
\* run of multiply calls gives the same normal in every order of its factors
\* in which all the intermediate products are defined.
C6_QuotientInvertsProduct ==
    /\ \A i \in 1..(Len(norm_trace) - 1) :
          (norm_ops[i][1] = "multiply" /\ norm_ops[i + 1] = <<"divide", norm_ops[i][2]>>)
              => norm_trace[i + 1] = Receiver(i)
    /\ \A i \in 1..Len(norm_trace) : MovedNaturalParameters(i)
    /\ (norm_status = None /\ \A i \in 1..Len(norm_ops) : norm_ops[i][1] = "multiply")
          => \A f \in Orderings(Len(norm_ops)) :
                LET r == ApplyAll(normal0, [i \in 1..Len(norm_ops) |-> norm_ops[f[i]]])
                IN r.exc = None => r.val = Current

\* A two-dimensional MultivariateNormal was multiplied by one factor, then by
\* another, and divided by that one again: a new normal each time.
C6_Witness ==
    /\ normal0.cls = "MultivariateNormal"
    /\ Dim(normal0) = 2
    /\ norm_ops = <<<<"multiply", 1>>, <<"multiply", 2>>, <<"divide", 2>>>>
    /\ Len(norm_trace) = 3
    /\ norm_trace[1] # normal0
    /\ norm_trace[2] # norm_trace[1]
    /\ norm_trace[2].m # norm_trace[1].m

-----------------------------------------------------------------------------
(***************************************************************************)
(* The conjugate updates: normals.conjugate_update_univariate and the two  *)
(* copies of linear_regression_online_update.                              *)
(***************************************************************************)

\* Elementwise arithmetic of 2-D arrays with numpy's broadcasting of axes
\* of length 1, and of a 2-D array with a scalar.
BShape(A, B) ==
    <<IF A.shape[1] = 1 THEN B.shape[1] ELSE A.shape[1],
      IF A.shape[2] = 1 THEN B.shape[2] ELSE A.shape[2]>>
BAt(A, p) == A.elts[<<IF A.shape[1] = 1 THEN 0 ELSE p[1], IF A.shape[2] = 1 THEN 0 ELSE p[2]>>]
BAdd(A, B) == NDArray(BShape(A, B), "float64", [p \in Indices(BShape(A, B)) |-> RAdd(BAt(A, p), BAt(B, p))])
BSub(A, B) == NDArray(BShape(A, B), "float64", [p \in Indices(BShape(A, B)) |-> RSub(BAt(A, p), BAt(B, p))])
BMul(A, B) == NDArray(BShape(A, B), "float64", [p \in Indices(BShape(A, B)) |-> RMul(BAt(A, p), BAt(B, p))])
AddScalar(A, c) == NDArray(A.shape, "float64", [p \in Indices(A.shape) |-> RAdd(A.elts[p], c)])
\* c - A
ScalarMinus(c, A) == NDArray(A.shape, "float64", [p \in Indices(A.shape) |-> RSub(c, A.elts[p])])
\* 1 / A, no element of A zero
Recip(A) == NDArray(A.shape, "float64", [p \in Indices(A.shape) |-> RDiv(One, A.elts[p])])
AnyZero(A) == \E p \in Indices(A.shape) : A.elts[p] = Zero

\* normals.conjugate_update_univariate on arrays prior_mu and prior_var of
\* one shape and scalars lik_mu and lik_var (not zero).
conjugate_update_univariate(prior_mu, prior_var, lik_mu, lik_var) ==
    IF AnyZero(prior_var) THEN NonFinite
    ELSE LET prior_prec == Recip(prior_var)
             lik_prec == RDiv(One, lik_var)
             new_prec == AddScalar(prior_prec, lik_prec)
         IN IF AnyZero(new_prec) THEN NonFinite
            ELSE LET bracket_term == AddScalar(BMul(prior_mu, prior_prec), RMul(lik_mu, lik_prec))
                     new_mean == BMul(Recip(new_prec), bracket_term)
                     new_var == Recip(new_prec)
                 IN Return(<<new_mean, new_var>>)

\* normals.linear_regression_online_update with the gain scaled by S_k
\* instead of 1 / S_k.
linear_regression_online_update_scaled(m, P, h, mo, vo) ==
    IF Len(m.shape) # 2 \/ Len(h.shape) # 2 THEN Raise("AssertionError")
    ELSE LET S_k == AddScalar(MatMul(MatMul(h, P), Transpose(h)), vo)
             K_k == BMul(MatMul(P, Transpose(h)), S_k)
         IN Return(<<BAdd(m, BMul(K_k, ScalarMinus(mo, MatMul(h, m)))),
                     BSub(P, MatMul(BMul(K_k, S_k), Transpose(K_k)))>>)

\* normals.linear_regression_online_update, for H of one row
linear_regression_online_update(m, P, h, mo, vo) ==
    IF Len(m.shape) # 2 \/ Len(h.shape) # 2 THEN Raise("AssertionError")
    ELSE LET S_k == AddScalar(MatMul(MatMul(h, P), Transpose(h)), vo)
         IN IF AnyZero(S_k) THEN NonFinite
            ELSE LET K_k == BMul(MatMul(P, Transpose(h)), Recip(S_k))
                     m_k == BAdd(m, BMul(K_k, ScalarMinus(mo, MatMul(h, m))))
                     P_k == BSub(P, MatMul(BMul(K_k, S_k), Transpose(K_k)))
                 IN Return(<<m_k, P_k>>)

\* autograd.logdet_via_cholesky of the 1 x 1 matrix 2 * pi * S: LinAlgError
\* from np.linalg.cholesky unless S > 0; 2 * log(sqrt(x)) is kept as log(x),
\* and the multiple of pi as its rational factor.
logdet_via_cholesky(two_S) ==
    IF RLe(two_S.elts[<<0, 0>>], Zero) THEN Raise("LinAlgError")
    ELSE Return([log_of_pi_times |-> two_S.elts[<<0, 0>>]])

\* autograd.linear_regression_online_update, for H of one row
linear_regression_online_update_autograd(m, P, h, mo, vo) ==
    IF Len(m.shape) # 2 \/ Len(h.shape) # 2 THEN Raise("AssertionError")
    ELSE LET v_k == ScalarMinus(mo, MatMul(h, m))
             S_k == AddScalar(MatMul(MatMul(h, P), Transpose(h)), vo)
             logdet == logdet_via_cholesky(MatScale(S_k, Q(2)))
         IN IF logdet.exc # None THEN logdet
            ELSE LET K_k == BMul(MatMul(P, Transpose(h)), Recip(S_k))
                     m_k == BAdd(m, BMul(K_k, v_k))
                     P_k == BSub(P, MatMul(BMul(K_k, S_k), Transpose(K_k)))
                     quadratic_term == MatScale(MatMul(Transpose(v_k), BMul(Recip(S_k), v_k)),
                                                Rat(1, 2))
                     energy_contrib == [half_of |-> logdet.val,
                                        plus |-> quadratic_term.elts[<<0, 0>>]]
                 IN Return(<<m_k, P_k, energy_contrib>>)

\* The prior covariances of a session: a * I + b * (all ones).
PriorCovs(n) ==
    {ScaledIdentityPlus(n, 1, 0), ScaledIdentityPlus(n, 1, 1), ScaledIdentityPlus(n, 2, 0),
     ScaledIdentityPlus(n, -2, 0)}

\* Column vectors (n x 1) and observation rows (1 x n).
Column(n, c, st) == Matrix(n, 1, [p \in Idx2(n, 1) |-> Q(c + st * p[1])])
Row(n, c, st)    == Matrix(1, n, [p \in Idx2(1, n) |-> Q(c + st * p[2])])

NotCalled == Raise("not called")

UpdInit ==
    /\ \E n \in 1..MaxDim :
          /\ m_km1 \in {Column(n, 0, 1), Column(n, 1, 2)}
          /\ P_km1 \in PriorCovs(n)
          /\ H \in {Row(n, 1, 0), Row(n, 1, -1)}
    /\ m_obs \in {Q(0), Q(3)}
    /\ var_obs \in {Q(1), Q(2), Q(-1)}
    /\ ret_conjugate = NotCalled
    /\ ret_normals = NotCalled
    /\ ret_autograd = NotCalled

UpdIdle ==
    /\ m_km1 = None /\ P_km1 = None /\ H = None /\ m_obs = None /\ var_obs = None
    /\ ret_conjugate = None /\ ret_normals = None /\ ret_autograd = None

\* normals.conjugate_update_univariate(m_km1, P_km1, m_obs, var_obs), for a
\* scalar latent
CallConjugateUpdateUnivariate ==
    /\ m_km1.shape = <<1, 1>>
    /\ ret_conjugate' = conjugate_update_univariate(m_km1, P_km1, m_obs, var_obs)
    /\ UNCHANGED <<updArgs, ret_normals, ret_autograd, notUpd>>

\* normals.linear_regression_online_update(m_km1, P_km1, H, m_obs, var_obs)
CallLinearRegressionOnlineUpdate ==
    /\ ret_normals' = linear_regression_online_update(m_km1, P_km1, H, m_obs, var_obs)
    /\ UNCHANGED <<updArgs, ret_conjugate, ret_autograd, notUpd>>

\* autograd.linear_regression_online_update(m_km1, P_km1, H, m_obs, var_obs)
CallLinearRegressionOnlineUpdateAutograd ==
    /\ ret_autograd' = linear_regression_online_update_autograd(m_km1, P_km1, H, m_obs, var_obs)
    /\ UNCHANGED <<updArgs, ret_conjugate, ret_normals, notUpd>>

UpdNext ==
    \/ CallConjugateUpdateUnivariate
    \/ CallLinearRegressionOnlineUpdate
    \/ CallLinearRegressionOnlineUpdateAutograd

\* A scalar latent observed directly, with positive variances.
ScalarCase ==
    /\ m_km1.shape = <<1, 1>>
    /\ H = Row(1, 1, 0)
    /\ RLt(Zero, P_km1.elts[<<0, 0>>])
    /\ RLt(Zero, var_obs)

\* The variance of the predicted observation, H P H' + var_obs.
PredictedVariance == RAdd(MatMul(MatMul(H, P_km1), Transpose(H)).elts[<<0, 0>>], var_obs)

\* C8: for a scalar latent with positive prior and observation variances the
\* (m_k, P_k) of linear_regression_online_update is the (new_mean, new_var)
\* of conjugate_update_univariate; and the copies of normals.py and
\* autograd.py return the same m_k and P_k (both return when the variance of
\* the predicted observation is positive, as it is for every covariance).
C8_UpdateMatchesConjugate ==
    /\ (ScalarCase /\ ret_conjugate # NotCalled /\ ret_normals # NotCalled) =>
          /\ ret_conjugate.exc = None /\ ret_normals.exc = None
          /\ ret_normals.val[1] = ret_conjugate.val[1]
          /\ ret_normals.val[2] = ret_conjugate.val[2]
    /\ (ret_normals # NotCalled /\ ret_autograd # NotCalled) =>
          /\ RLt(Zero, PredictedVariance) => (ret_normals.exc = None /\ ret_autograd.exc = None)
          /\ (ret_normals.exc = None /\ ret_autograd.exc = None) =>
                /\ ret_normals.val[1] = ret_autograd.val[1]
                /\ ret_normals.val[2] = ret_autograd.val[2]

\* All three were called for a scalar latent, and the update moved the mean
\* and shrank the variance.
C8_Witness ==
    /\ ScalarCase
    /\ ret_conjugate.exc = None /\ ret_normals.exc = None /\ ret_autograd.exc = None
    /\ ret_normals.val[1] # m_km1
    /\ RLt(ret_normals.val[2].elts[<<0, 0>>], P_km1.elts[<<0, 0>>])
    /\ ret_autograd.val[1] = ret_conjugate.val[1]

-----------------------------------------------------------------------------
(***************************************************************************)
(* kernels.py and jax_kernels.py.                                          *)
(*                                                                         *)
(* A kernel value is coef * g(arg) + add with rational coef and add, where *)
(* g is exp (fn = "exp") or the Matern 3/2 profile                         *)
(* r |-> (1 + sqrt(3) r) exp(-sqrt(3) r), given by the radicand of r       *)
(* (fn = "matern32"); a rational value has fn = "const".  The argument is  *)
(* rat + eps * EPS: EPS (1e-12) is kept as a positive unit of its own, far *)
(* below every rational the sessions compute.  exp(0) and the Matern       *)
(* profile at 0 are the rational 1, and no other value of g is rational    *)
(* (Lindemann-Weierstrass), so two kernel values are equal exactly when    *)
(* their normal forms are.                                                 *)
(***************************************************************************)

Radicand(rat, eps) == [rat |-> rat, eps |-> eps]
Const(r) == [fn |-> "const", coef |-> Zero, arg |-> Radicand(Zero, Zero), add |-> r]

\* jax_kernels.EPS and jax_kernels.DEFAULT_JITTER (also the default of
\* kernels.ard_rbf_kernel)
EPS == Radicand(Zero, One)
DEFAULT_JITTER == Rat(1, 100000)

\* np.exp(q) and jnp.exp(q)
Exp(q) ==
    IF q = Zero THEN Const(One)
    ELSE [fn |-> "exp", coef |-> One, arg |-> Radicand(q, Zero), add |-> Zero]

\* (1 + sqrt(3) * r) * exp(-sqrt(3) * r) for r = sqrt(radicand)
Matern32(radicand) ==
    IF radicand = Radicand(Zero, Zero) THEN Const(One)
    ELSE [fn |-> "matern32", coef |-> One, arg |-> radicand, add |-> Zero]

\* c * v and v + a
Times(c, v) ==
    IF v.fn = "const" \/ c = Zero THEN Const(RMul(c, v.add))
    ELSE [v EXCEPT !.coef = RMul(c, @), !.add = RMul(c, @)]
PlusRational(v, a) == [v EXCEPT !.add = RAdd(@, a)]

\* x ** 2 and x ** 3
Square(x) == RMul(x, x)
Cube(x)   == RMul(x, RMul(x, x))
Min(a, b) == IF a < b THEN a ELSE b
RMax(a, b) == IF RLt(a, b) THEN b ELSE a

\* kernels.ard_rbf_kernel(x1, x2, lengthscales, alpha, jitter) for 2-D x1
\* and x2 and 1-D lengthscales without a zero
ard_rbf_kernel(a1, a2, ls, al, jit) ==
    IF a1.shape[2] # a2.shape[2] THEN Raise("AssertionError")
    ELSE IF ls.shape[1] # a1.shape[2] THEN Raise("AssertionError")
    ELSE
      LET N1 == a1.shape[1]
          N2 == a2.shape[1]
          D  == a1.shape[2]
          sq_differences ==
              NDArray(<<N1, N2, D>>, "float64",
                      [p \in Indices(<<N1, N2, D>>) |->
                          Square(RSub(a1.elts[<<p[1], p[3]>>], a2.elts[<<p[2], p[3]>>]))])
          inv_sq_lengthscales == [k \in 1..D |-> RDiv(One, Square(ls.elts[<<k - 1>>]))]
          exponent ==
              [p \in Idx2(N1, N2) |->
                  RSum([k \in 1..D |-> RMul(sq_differences.elts[<<p[1], p[2], k - 1>>],
                                            inv_sq_lengthscales[k])], 1, D)]
          exponentiated == [p \in Idx2(N1, N2) |-> Exp(RMul(Rat(-1, 2), exponent[p]))]
          kern0 == [p \in Idx2(N1, N2) |-> Times(Square(al), exponentiated[p])]
      IN \* np.diag_indices_from(kern) wants all axes of kern of one length
         IF N1 # N2 THEN Raise("ValueError")
         ELSE
           LET kern == Matrix(N1, N2, [p \in Idx2(N1, N2) |->
                                         IF p[1] = p[2] THEN PlusRational(kern0[p], jit)
                                         ELSE kern0[p]])
               alpha_grad == Matrix(N1, N2, [p \in Idx2(N1, N2) |->
                                               Times(RMul(Q(2), al), exponentiated[p])])
               lengthscale_grads ==
                   NDArray(<<N1, N2, D>>, "float64",
                           [p \in Indices(<<N1, N2, D>>) |->
                               Times(RDiv(RMul(Square(al), sq_differences.elts[p]),
                                          Cube(ls.elts[<<p[3]>>])),
                                     exponentiated[<<p[1], p[2]>>])])
           IN Return(<<kern, lengthscale_grads, alpha_grad>>)

\* jax_kernels.compute_weighted_square_distances
compute_weighted_square_distances(a1, a2, ls) ==
    LET row == Matrix(1, ls.shape[1], [p \in Idx2(1, ls.shape[1]) |-> ls.elts[<<p[2]>>]])
        z1 == BMul(a1, Recip(row))
        z2 == BMul(a2, Recip(row))
        cross_contrib == MatMul(MatScale(z1, Q(-2)), Transpose(z2))
        z1_sq == [i \in 0..(z1.shape[1] - 1) |->
                     RSum([k \in 1..z1.shape[2] |-> Square(z1.elts[<<i, k - 1>>])], 1, z1.shape[2])]
        z2_sq == [i \in 0..(z2.shape[1] - 1) |->
                     RSum([k \in 1..z2.shape[2] |-> Square(z2.elts[<<i, k - 1>>])], 1, z2.shape[2])]
        combined == [p \in Idx2(a1.shape[1], a2.shape[1]) |->
                        RAdd(RAdd(z1_sq[p[1]], cross_contrib.elts[p]), z2_sq[p[2]])]
    IN Matrix(a1.shape[1], a2.shape[1],
              [p \in Idx2(a1.shape[1], a2.shape[1]) |-> RMax(combined[p], Zero)])

\* jax_kernels.add_jitter adding to every entry of the first row as well
add_jitter_first_row(kern, jit) ==
    [kern EXCEPT !.elts = [p \in DOMAIN @ |->
                              IF p[1] = p[2] \/ p[1] = 0 THEN PlusRational(@[p], jit) ELSE @[p]]]

\* jax_kernels.add_jitter, diag_only=False
add_jitter(kern, jit) ==
    LET n == Min(kern.shape[1], kern.shape[2])
    IN [kern EXCEPT !.elts = [p \in DOMAIN @ |->
                                 IF p[1] = p[2] /\ p[1] < n THEN PlusRational(@[p], jit)
                                 ELSE @[p]]]

\* jax_kernels.ard_rbf_kernel, diag_only=False
jax_ard_rbf_kernel(a1, a2, ls, al, jit) ==
    LET r_sq == compute_weighted_square_distances(a1, a2, ls)
        kernel == [r_sq EXCEPT !.elts = [p \in DOMAIN @ |->
                                            Times(Square(al), Exp(RMul(Rat(-1, 2), @[p])))]]
    IN add_jitter(kernel, jit)

\* jax_kernels.matern_kernel_32, diag_only=False
matern_kernel_32(a1, a2, ls, al, jit) ==
    LET r_sq == compute_weighted_square_distances(a1, a2, ls)
        kernel == [r_sq EXCEPT !.elts = [p \in DOMAIN @ |->
                      Times(Square(al), Matern32(Radicand(RAdd(@[p], EPS.rat), EPS.eps)))]]
    IN add_jitter(kernel, jit)

\* jax_kernels.bias_kernel, diag_only=False
bias_kernel(a1, a2, sd, jit) ==
    LET output_rows == a1.shape[1]
        output_cols == a2.shape[1]
        kern == Matrix(output_rows, output_cols,
                       [p \in Idx2(output_rows, output_cols) |-> Times(Square(sd), Const(One))])
    IN add_jitter(kern, jit)

\* The points of a session: N rows of D coordinates.
MaxPoints == 2
Points(N, D, c, st) == Matrix(N, D, [p \in Idx2(N, D) |-> Q(c + st * (p[1] + 2 * p[2]))])

KernInit ==
    /\ \E N1 \in 1..MaxPoints, N2 \in 1..MaxPoints, D \in 1..MaxDim :
          /\ x1 \in {Points(N1, D, 0, 1), Points(N1, D, 1, -1)}
          /\ x2 \in {Points(N2, D, 0, 1), Points(N2, D, 2, 1)}
          /\ lengthscales \in {Progression(D, 1, 0), Progression(D, 1, 1)}
    /\ alpha \in {Q(1), Q(2)}
    /\ kern_jitter \in {DEFAULT_JITTER, Rat(1, 2)}
    /\ kern_fn = None
    /\ kern_ret = NotCalled

KernIdle ==
    /\ x1 = None /\ x2 = None /\ lengthscales = None /\ alpha = None /\ kern_jitter = None
    /\ kern_fn = None /\ kern_ret = None

\* kernels.ard_rbf_kernel(x1, x2, lengthscales, alpha, jitter)
CallArdRbfKernel ==
    /\ kern_fn' = "kernels.ard_rbf_kernel"
    /\ kern_ret' = ard_rbf_kernel(x1, x2, lengthscales, alpha, kern_jitter)
    /\ UNCHANGED <<kernArgs, notKern>>

\* jax_kernels.compute_weighted_square_distances(x1, x2, lengthscales)
CallComputeWeightedSquareDistances ==
    /\ kern_fn' = "compute_weighted_square_distances"
    /\ kern_ret' = Return(compute_weighted_square_distances(x1, x2, lengthscales))
    /\ UNCHANGED <<kernArgs, notKern>>

\* jax_kernels.ard_rbf_kernel(x1, x2, lengthscales, alpha, False, jitter)
CallJaxArdRbfKernel ==
    /\ kern_fn' = "jax_kernels.ard_rbf_kernel"
    /\ kern_ret' = Return(jax_ard_rbf_kernel(x1, x2, lengthscales, alpha, kern_jitter))
    /\ UNCHANGED <<kernArgs, notKern>>

\* jax_kernels.matern_kernel_32(x1, x2, lengthscales, alpha, False, jitter)
CallMaternKernel32 ==
    /\ kern_fn' = "matern_kernel_32"
    /\ kern_ret' = Return(matern_kernel_32(x1, x2, lengthscales, alpha, kern_jitter))
    /\ UNCHANGED <<kernArgs, notKern>>

\* jax_kernels.bias_kernel(x1, x2, alpha, False, jitter), alpha as sd
CallBiasKernel ==
    /\ kern_fn' = "bias_kernel"
    /\ kern_ret' = Return(bias_kernel(x1, x2, alpha, kern_jitter))
    /\ UNCHANGED <<kernArgs, notKern>>

KernNext ==
    \/ CallArdRbfKernel
    \/ CallComputeWeightedSquareDistances
    \/ CallJaxArdRbfKernel
    \/ CallMaternKernel32
    \/ CallBiasKernel

\* The numbers of points and of coordinates of the session.
N1 == x1.shape[1]
N2 == x2.shape[1]
D  == x1.shape[2]

\* kern is the kernel without jitter, plus jitter on the entries [i, i].
JitterOnDiagonalOnly(kern, alpha_grad) ==
    \A p \in Idx2(N1, N2) :
        kern.elts[p] = PlusRational(Times(RDiv(alpha, Q(2)), alpha_grad.elts[p]),
                                    IF p[1] = p[2] THEN kern_jitter ELSE Zero)

\* C5 as stated: for every N1, N2 and D, with lengthscales of length D,
\* kernels.ard_rbf_kernel returns kern (N1 x N2), lengthscale_grads
\* (N1 x N2 x D) and alpha_grad (N1 x N2), with jitter on kern[i, i] only.
C5_AcceptsAnyN1N2 ==
    kern_fn = "kernels.ard_rbf_kernel" =>
        /\ kern_ret.exc = None
        /\ kern_ret.val[1].shape = <<N1, N2>>
        /\ kern_ret.val[2].shape = <<N1, N2, D>>
        /\ kern_ret.val[3].shape = <<N1, N2>>
        /\ JitterOnDiagonalOnly(kern_ret.val[1], kern_ret.val[3])

\* What the code does instead: the three arrays for N1 = N2, ValueError from
\* np.diag_indices_from otherwise.
KernelsArdRbfOutcome ==
    kern_fn = "kernels.ard_rbf_kernel" =>
        IF N1 = N2
        THEN /\ kern_ret.exc = None
             /\ kern_ret.val[1].shape = <<N1, N2>>
             /\ kern_ret.val[2].shape = <<N1, N2, D>>
             /\ kern_ret.val[3].shape = <<N1, N2>>
             /\ JitterOnDiagonalOnly(kern_ret.val[1], kern_ret.val[3])
        ELSE kern_ret.exc = "ValueError"

\* The kernel matrix of the last call (the first of the three arrays of
\* kernels.ard_rbf_kernel).
K == IF kern_fn = "kernels.ard_rbf_kernel" THEN kern_ret.val[1] ELSE kern_ret.val

Kernels == {"kernels.ard_rbf_kernel", "jax_kernels.ard_rbf_kernel", "matern_kernel_32",
            "bias_kernel"}
SameArray == x1 = x2 /\ kern_fn # None /\ kern_ret.exc = None

Symmetric(A) == \A p \in Idx2(N1, N1) : A.elts[p] = A.elts[<<p[2], p[1]>>]

\* The weighted squared distance of kernels.ard_rbf_kernel, as the sum the
\* code takes.
WeightedSquaredDistance(i, j) ==
    RSum([k \in 1..D |-> RDiv(Square(RSub(x1.elts[<<i, k - 1>>], x2.elts[<<j, k - 1>>])),
                              Square(lengthscales.elts[<<k - 1>>]))], 1, D)

DistanceProperties ==
    /\ (SameArray /\ kern_fn = "compute_weighted_square_distances") =>
          /\ Symmetric(kern_ret.val)
          /\ \A p \in Idx2(N1, N1) :
                /\ RLe(Zero, kern_ret.val.elts[p])
                /\ p[1] = p[2] => kern_ret.val.elts[p] = Zero
                /\ kern_ret.val.elts[p] = WeightedSquaredDistance(p[1], p[2])
    /\ (SameArray /\ kern_fn = "kernels.ard_rbf_kernel") =>
          \A p \in Idx2(N1, N1) :
              K.elts[p] = PlusRational(
                              Times(Square(alpha),
                                    Exp(RMul(Rat(-1, 2), WeightedSquaredDistance(p[1], p[2])))),
                              IF p[1] = p[2] THEN kern_jitter ELSE Zero)

DiagonalIs(v) == \A i \in 0..(N1 - 1) : K.elts[<<i, i>>] = v

\* C7 as stated: for x1 and x2 the same array every kernel matrix is
\* symmetric, the weighted squared distance is symmetric, non-negative and
\* zero on the diagonal, and every diagonal entry is alpha**2 + jitter.
C7_SymmetryAndDiagonal ==
    /\ DistanceProperties
    /\ (SameArray /\ kern_fn \in Kernels) =>
          /\ Symmetric(K)
          /\ DiagonalIs(Const(RAdd(Square(alpha), kern_jitter)))

\* C7, amended: as stated for kernels.ard_rbf_kernel, jax_kernels.ard_rbf_kernel
\* and bias_kernel; matern_kernel_32 is symmetric too, but its diagonal
\* entries are alpha**2 * (1 + sqrt(3 * EPS)) * exp(-sqrt(3 * EPS)) + jitter,
\* which is not alpha**2 + jitter.
C7_SymmetryAndDiagonalButMatern ==
    /\ DistanceProperties
    /\ (SameArray /\ kern_fn \in Kernels) =>
          /\ Symmetric(K)
          /\ kern_fn # "matern_kernel_32" => DiagonalIs(Const(RAdd(Square(alpha), kern_jitter)))
          /\ kern_fn = "matern_kernel_32" =>
                /\ DiagonalIs(PlusRational(Times(Square(alpha), Matern32(EPS)), kern_jitter))
                /\ ~DiagonalIs(Const(RAdd(Square(alpha), kern_jitter)))

\* matern_kernel_32 was called on two or more points in two coordinates,
\* with x1 and x2 the same array, and points at different distances.
C7_Witness ==
    /\ SameArray /\ kern_fn = "matern_kernel_32"
    /\ N1 >= 2 /\ D >= 2
    /\ K.elts[<<0, 1>>] # K.elts[<<0, 0>>]
    /\ K.elts[<<0, 1>>].fn = "matern32"

-----------------------------------------------------------------------------
(***************************************************************************)
(* The entry points that check the shapes of their arguments.              *)
(***************************************************************************)

\* Most axes of an argument.
MaxRank == 3

\* The shapes of rank 0..MaxRank with axes of length 1..MaxDim.
ArgShapes == UNION {[1..r -> 1..MaxDim] : r \in 0..MaxRank}
ShapesOfRank(r) == [1..r -> 1..MaxDim]

\* np.ones(shape)
Ones(shape) == NDArray(shape, "float64", [idx \in Indices(shape) |-> One])

\* A session makes one call.
EntryInit ==
    /\ entry = None
    /\ entry_shapes = <<>>
    /\ entry_exc = None

EntryIdle == EntryInit

\* MultivariateNormal(m, v_inv)
NewMultivariateNormal ==
    /\ entry = None
    /\ \E m \in ArgShapes, v_inv \in ArgShapes :
          /\ entry_shapes' = <<m, v_inv>>
          /\ entry_exc' = MultivariateNormal(Ones(m), Ones(v_inv)).exc
    /\ entry' = "MultivariateNormal"
    /\ UNCHANGED notEntry

\* DiagonalNormal(m, v)
NewDiagonalNormal ==
    /\ entry = None
    /\ \E m \in ArgShapes, v \in ArgShapes :
          /\ entry_shapes' = <<m, v>>
          /\ entry_exc' = DiagonalNormal(Ones(m), Ones(v)).exc
    /\ entry' = "DiagonalNormal"
    /\ UNCHANGED notEntry

\* kernels.ard_rbf_kernel(x1, x2, lengthscales, alpha) for 2-D x1 and x2 and
\* 1-D lengthscales
CallArdRbfKernelWithShapes ==
    /\ entry = None
    /\ \E a1 \in ShapesOfRank(2), a2 \in ShapesOfRank(2), ls \in ShapesOfRank(1) :
          /\ entry_shapes' = <<a1, a2, ls>>
          /\ entry_exc' = ard_rbf_kernel(Ones(a1), Ones(a2), Ones(ls), One, DEFAULT_JITTER).exc
    /\ entry' = "kernels.ard_rbf_kernel"
    /\ UNCHANGED notEntry

\* What the update functions are called with: m_km1 and H of any rank; when
\* both are 2-D, a column m_km1, a one-row H and a square P_km1 that go
\* together.
UpdateShapes ==
    {sh \in ArgShapes \X ArgShapes :
        (Len(sh[1]) = 2 /\ Len(sh[2]) = 2) => (sh[1][2] = 1 /\ sh[2] = <<1, sh[1][1]>>)}
PriorCovFor(m) == IF Len(m) = 2 THEN Eye(m[1]) ELSE Eye(1)

\* normals.linear_regression_online_update(m_km1, P_km1, H, m_obs, var_obs)
CallUpdateWithShapes ==
    /\ entry = None
    /\ \E sh \in UpdateShapes :
          /\ entry_shapes' = sh
          /\ entry_exc' = linear_regression_online_update(
                              Ones(sh[1]), PriorCovFor(sh[1]), Ones(sh[2]), Zero, One).exc
    /\ entry' = "normals.linear_regression_online_update"
    /\ UNCHANGED notEntry

\* autograd.linear_regression_online_update(m_km1, P_km1, H, m_obs, var_obs)
CallAutogradUpdateWithShapes ==
    /\ entry = None
    /\ \E sh \in UpdateShapes :
          /\ entry_shapes' = sh
          /\ entry_exc' = linear_regression_online_update_autograd(
                              Ones(sh[1]), PriorCovFor(sh[1]), Ones(sh[2]), Zero, One).exc
    /\ entry' = "autograd.linear_regression_online_update"
    /\ UNCHANGED notEntry

EntryNext ==
    \/ NewMultivariateNormal
    \/ NewDiagonalNormal
    \/ CallArdRbfKernelWithShapes
    \/ CallUpdateWithShapes
    \/ CallAutogradUpdateWithShapes

\* The shape mismatches of the entry points; len(m) is m.shape[0].
HasLen(shape) == Len(shape) >= 1
Mismatch ==
    \/ /\ entry = "MultivariateNormal"
       /\ HasLen(entry_shapes[1])
       /\ entry_shapes[2] # <<entry_shapes[1][1], entry_shapes[1][1]>>
    \/ /\ entry = "DiagonalNormal"
       /\ HasLen(entry_shapes[1])
       /\ SeqProd(entry_shapes[2]) # entry_shapes[1][1]
    \/ /\ entry = "kernels.ard_rbf_kernel"
       /\ \/ entry_shapes[1][2] # entry_shapes[2][2]
          \/ entry_shapes[3][1] # entry_shapes[1][2]
    \/ /\ entry \in {"normals.linear_regression_online_update",
                     "autograd.linear_regression_online_update"}
       /\ (Len(entry_shapes[1]) # 2 \/ Len(entry_shapes[2]) # 2)

\* C3 as stated: a shape mismatch at a checked entry point ends in an
\* AssertionError, not in another exception and not in a returned value.
C3_MismatchIsAssertionError == Mismatch => entry_exc = "AssertionError"

\* What the code does: the mismatches of kernels.ard_rbf_kernel and of both
\* update functions end in AssertionError; a MultivariateNormal with a 1-D
\* v_inv whose length is len(m) ends in IndexError, one with v_inv of shape
\* (len(m), len(m), ...) and more than two axes is constructed; a
\* DiagonalNormal with a 0-d v ends in IndexError.
MismatchOutcome ==
    Mismatch =>
        IF entry = "MultivariateNormal" /\ entry_shapes[2] = <<entry_shapes[1][1]>>
            THEN entry_exc = "IndexError"
        ELSE IF entry = "MultivariateNormal" /\ Len(entry_shapes[2]) > 2
                /\ SubSeq(entry_shapes[2], 1, 2) = <<entry_shapes[1][1], entry_shapes[1][1]>>
            THEN entry_exc = None
        ELSE IF entry \in {"MultivariateNormal", "DiagonalNormal"} /\ entry_shapes[2] = <<>>
            THEN entry_exc = "IndexError"
        ELSE entry_exc = "AssertionError"

-----------------------------------------------------------------------------
(***************************************************************************)
(* autograd.fit_laplace_approximation.                                     *)
(***************************************************************************)

\* The negative log posteriors of a session, by name:
\*   "quadratic"  x |-> x' A x / 2 with A = 2 I + (all ones)
\*   "quartic"    x |-> sum(x ** 4)
\*   "cubic"      x |-> sum(x ** 3 / 3 - x)
Posteriors == {"quadratic", "quartic", "cubic"}

\* hessian(neg_log_posterior_fun)(x)
Hessian(fun, x) ==
    LET n == x.shape[1]
    IN IF fun = "quadratic" THEN ScaledIdentityPlus(n, 2, 1)
       ELSE Matrix(n, n, [p \in Idx2(n, n) |->
                IF p[1] # p[2] THEN Zero
                ELSE IF fun = "quartic" THEN RMul(Q(12), Square(x.elts[<<p[1]>>]))
                ELSE RMul(Q(2), x.elts[<<p[1]>>])])

\* The points of a session: where a mode search starts and where it can end.
LapPoints(n) ==
    {Progression(n, 0, 0), Progression(n, 1, 0), Progression(n, -1, 0), Progression(n, 0, 1),
     Progression(n, 1, 1)}

\* fit_laplace_approximation after minimize handed back res (x and success)
\* with the covariance taken at start_val.
fit_laplace_approximation_at_start(fun, start, res) ==
    LET covariance_approx == Inv(Hessian(fun, start))
    IN IF covariance_approx.exc # None THEN covariance_approx
       ELSE Return(<<res.x, covariance_approx.val, res.success>>)

\* fit_laplace_approximation after minimize handed back res (x and success)
fit_laplace_approximation(fun, start, res) ==
    LET covariance_approx == Inv(Hessian(fun, res.x))
        mean_approx == res.x
    IN IF covariance_approx.exc # None THEN covariance_approx
       ELSE Return(<<mean_approx, covariance_approx.val, res.success>>)

NoResult == [x |-> VecOf(0, <<>>), success |-> FALSE]

LapInit ==
    /\ neg_log_posterior_fun \in Posteriors
    /\ \E n \in 1..MaxDim : start_val \in LapPoints(n)
    /\ result = NoResult
    /\ minimize_calls = 0
    /\ lap_pc = "start"
    /\ lap_ret = None

LapIdle ==
    /\ neg_log_posterior_fun = None /\ start_val = None /\ result = None
    /\ minimize_calls = None /\ lap_pc = None /\ lap_ret = None

\* fit_laplace_approximation(neg_log_posterior_fun, start_val): minimize ends
\* at any point, with success or without.
FitLaplaceApproximation ==
    /\ lap_pc = "start"
    /\ \E x \in LapPoints(start_val.shape[1]), success \in BOOLEAN :
          LET res == [x |-> x, success |-> success]
              r == fit_laplace_approximation(neg_log_posterior_fun, start_val, res)
          IN /\ result' = res
             /\ lap_pc' = IF r.exc = None THEN "returned" ELSE r.exc
             /\ lap_ret' = r.val
    /\ minimize_calls' = minimize_calls + 1
    /\ UNCHANGED <<neg_log_posterior_fun, start_val, notLap>>

LapNext == FitLaplaceApproximation

\* What a returned tuple is: the optimizer's final point, the inverse of the
\* Hessian there, the optimizer's success flag; after one mode search.
ReturnedTuple ==
    /\ lap_ret[1] = result.x
    /\ MatMul(lap_ret[2], Hessian(neg_log_posterior_fun, result.x)) = Eye(result.x.shape[1])
    /\ MatMul(Hessian(neg_log_posterior_fun, result.x), lap_ret[2]) = Eye(result.x.shape[1])
    /\ lap_ret[3] = result.success
    /\ minimize_calls = 1

\* C4 as stated: for every outcome of the mode search, converged or not,
\* fit_laplace_approximation returns (mean, covariance, success) with the
\* optimizer's final point, the inverse Hessian there and the optimizer's
\* flag, after a single mode search.
C4_ReturnsForEveryOutcome ==
    lap_pc # "start" => (lap_pc = "returned" /\ ReturnedTuple)

\* C4, amended: that holds for every outcome of the mode search, converged or
\* not, at whose final point the Hessian is invertible; where it is singular
\* np.linalg.inv raises LinAlgError and nothing is returned.
C4_ReturnsUnlessSingular ==
    lap_pc # "start" =>
        IF Det(Hessian(neg_log_posterior_fun, result.x)) # Zero
        THEN lap_pc = "returned" /\ ReturnedTuple
        ELSE lap_pc = "LinAlgError" /\ lap_ret = None /\ minimize_calls = 1

\* A mode search in two dimensions that did not converge and ended away from
\* its start, where the Hessian is another than at the start: the tuple is
\* returned with success false.
C4_Witness ==
    /\ lap_pc = "returned"
    /\ result.success = FALSE
    /\ start_val.shape = <<2>>
    /\ result.x # start_val
    /\ Hessian(neg_log_posterior_fun, result.x) # Hessian(neg_log_posterior_fun, start_val)
    /\ Det(Hessian(neg_log_posterior_fun, start_val)) # Zero

-----------------------------------------------------------------------------
(***************************************************************************)
(* tensorflow.newton_optimize, for functions of one variable.              *)
(*                                                                         *)
(* A float is a rational or NaN.  Every comparison with NaN is false and   *)
(* every operation on NaN gives NaN, as in IEEE 754.                       *)
(***************************************************************************)

NaN == <<0, 0>>
IsNaN(a) == a = NaN
FGreater(a, b) == ~IsNaN(a) /\ ~IsNaN(b) /\ RLt(b, a)
FLessEq(a, b)  == ~IsNaN(a) /\ ~IsNaN(b) /\ RLe(a, b)
FAdd(a, b) == IF IsNaN(a) \/ IsNaN(b) THEN NaN ELSE RAdd(a, b)
FSub(a, b) == IF IsNaN(a) \/ IsNaN(b) THEN NaN ELSE RSub(a, b)
FMul(a, b) == IF IsNaN(a) \/ IsNaN(b) THEN NaN ELSE RMul(a, b)
\* b is not zero
FDiv(a, b) == IF IsNaN(a) \/ IsNaN(b) THEN NaN ELSE RDiv(a, b)
FAbs(a)    == IF IsNaN(a) THEN NaN ELSE RAbs(a)
\* tf.sqrt: NaN below zero; the sessions take it of squares of rationals
FSqrt(a) ==
    CASE IsNaN(a) -> NaN
      [] ~IsNaN(a) /\ RLt(a, Zero) -> NaN
      [] ~IsNaN(a) /\ ~RLt(a, Zero) /\ HasRSqrt(a) -> RSqrt(a)

\* The functions a session minimises, by name, with their derivatives:
\*   "quadratic"  (x - 1) ** 2            jac 2 x - 2           hess 2
\*   "cycle"      x**4/4 - x**2 + 2 x     jac x**3 - 2 x + 2    hess 3 x**2 - 2
\*   "cubic"      x ** 3 / 3              jac x ** 2            hess 2 x
\*   "sqrt"       2/3 x ** (3/2) + x      jac sqrt(x) + 1       hess 1 / (2 sqrt(x))
Objectives == {"quadratic", "cycle", "cubic", "sqrt"}

jac(g, x) ==
    CASE g = "quadratic" -> FSub(FMul(Q(2), x), Q(2))
      [] g = "cycle" -> FAdd(FSub(FMul(x, FMul(x, x)), FMul(Q(2), x)), Q(2))
      [] g = "cubic" -> FMul(x, x)
      [] g = "sqrt" -> FAdd(FSqrt(x), One)

hess(g, x) ==
    CASE g = "quadratic" -> Q(2)
      [] g = "cycle" -> FSub(FMul(Q(3), FMul(x, x)), Q(2))
      [] g = "cubic" -> FMul(Q(2), x)
      [] g = "sqrt" -> IF IsNaN(FSqrt(x)) THEN NaN ELSE FDiv(One, FMul(Q(2), FSqrt(x)))

\* Where the sessions start: the iterates stay among few rationals.
StartsOf(g) ==
    CASE g = "quadratic" -> {Q(0), Q(1), Q(3)}
      [] g = "cycle" -> {Q(0), Q(1)}
      [] g = "cubic" -> {Q(1), Q(2)}
      [] g = "sqrt" -> {Q(1), Q(4)}

Tolerances == {Rat(1, 8), Rat(1, 4), Rat(1, 2), Q(1), Q(2)}

\* solve_fun(cur_hess, cur_jac), a parameter of newton_optimize: cur_jac /
\* cur_hess; given NaN a solver raises (tf.linalg.solve: the matrix is not
\* invertible) or hands NaN back.  No session meets a zero cur_hess.
solve_fun(cur_hess, cur_jac) ==
    IF IsNaN(cur_hess) \/ IsNaN(cur_jac)
    THEN {Raise("InvalidArgumentError"), Return(NaN)}
    ELSE {Return(FDiv(cur_jac, cur_hess))}

\* The loop condition with >= for >.
cond_or_equal(a, tol) == FGreater(a, tol) \/ (~IsNaN(a) /\ a = tol)

\* lambda f, difference: difference > tolerance
cond(a, tol) == FGreater(a, tol)

\* Most steps and evaluations counted (the loop itself has no cap).
MaxSteps == 3
Counted(n) == IF n < MaxSteps THEN n + 1 ELSE n

NewtonInit ==
    /\ objective \in Objectives
    /\ start_f \in StartsOf(objective)
    /\ tolerance \in Tolerances
    /\ newton_f = start_f
    /\ difference = One
    /\ newton_pc = "while_loop"
    /\ steps = 0
    /\ evaluations = 0
    /\ within = FALSE

NewtonIdle ==
    /\ objective = None /\ start_f = None /\ tolerance = None /\ newton_f = None /\ difference = None
    /\ newton_pc = None /\ steps = None /\ evaluations = None /\ within = None

\* body(f, difference), solve_fun returning
Body ==
    /\ newton_pc = "while_loop"
    /\ cond(difference, tolerance)
    /\ \E sol \in solve_fun(hess(objective, newton_f), jac(objective, newton_f)) :
          /\ sol.exc = None
          /\ LET new_f == FSub(newton_f, sol.val)
             IN /\ newton_f' = new_f
                /\ difference' = FAbs(FSub(newton_f, new_f))
                /\ within' = (within \/ FLessEq(FAbs(FSub(newton_f, new_f)), tolerance))
    /\ steps' = Counted(steps)
    /\ evaluations' = Counted(evaluations)
    /\ UNCHANGED <<newtonArgs, newton_pc, notNewton>>

\* body(f, difference), solve_fun raising
BodyRaises ==
    /\ newton_pc = "while_loop"
    /\ cond(difference, tolerance)
    /\ \E sol \in solve_fun(hess(objective, newton_f), jac(objective, newton_f)) :
          /\ sol.exc # None
          /\ newton_pc' = sol.exc
    /\ evaluations' = Counted(evaluations)
    /\ UNCHANGED <<newtonArgs, newton_f, difference, steps, within, notNewton>>

\* the loop condition is false: return result[0]
ReturnResult ==
    /\ newton_pc = "while_loop"
    /\ ~cond(difference, tolerance)
    /\ newton_pc' = "returned"
    /\ UNCHANGED <<newtonArgs, newton_f, difference, steps, evaluations, within, notNewton>>

NewtonNext ==
    \/ Body
    \/ BodyRaises
    \/ ReturnResult

\* The Newton map f |-> f - jac(f) / hess(f) and its k-th iterate from x,
\* where no derivative is NaN.
RECURSIVE Iterate(_, _, _)
Iterate(g, x, k) ==
    IF k = 0 THEN x
    ELSE LET y == Iterate(g, x, k - 1)
         IN IF IsNaN(hess(g, y)) \/ IsNaN(jac(g, y)) THEN NaN
            ELSE FSub(y, FDiv(jac(g, y), hess(g, y)))

Returned == newton_pc = "returned"

\* The norm of the latest step is not greater than tolerance.
NotGreater == ~FGreater(difference, tolerance)

\* C10 as stated: newton_optimize returns the iterate of the first step whose
\* norm is <= tolerance; for tolerance < 1 it returns only after a step, and
\* only if some step reached a norm <= tolerance; for tolerance >= 1 it
\* returns start_f without evaluating hess or jac.
C10_ReturnsIffStepWithinTolerance ==
    /\ within => FLessEq(difference, tolerance)
    /\ (Returned /\ steps < MaxSteps) => newton_f = Iterate(objective, start_f, steps)
    /\ (Returned /\ RLt(tolerance, One)) => (steps >= 1 /\ within)
    /\ (Returned /\ RLe(One, tolerance)) =>
          (newton_f = start_f /\ steps = 0 /\ evaluations = 0)

\* C10, amended: the loop is left, and the iterate returned, at the first
\* step whose norm is not greater than tolerance: <= tolerance, or NaN.  For
\* tolerance < 1 newton_optimize returns only after a step, and only if some
\* step had such a norm; for tolerance >= 1 it returns start_f without
\* evaluating hess or jac; and once the norm of the latest step is not
\* greater than tolerance, it returns.
C10_ReturnsAtFirstStepNotGreater ==
    /\ [](/\ within => FLessEq(difference, tolerance)
          /\ (steps >= 1 /\ IsNaN(difference)) => IsNaN(newton_f)
          /\ (Returned /\ steps < MaxSteps) => newton_f = Iterate(objective, start_f, steps)
          /\ (Returned /\ RLt(tolerance, One)) =>
                (steps >= 1 /\ (within \/ IsNaN(difference)))
          /\ (Returned /\ RLe(One, tolerance)) =>
                (newton_f = start_f /\ steps = 0 /\ evaluations = 0))
    /\ (NotGreater ~> Returned)
    /\ [](~NotGreater => ~Returned)

\* newton_optimize returned after two steps or more, the last the first with
\* a norm <= tolerance (< 1), at another point than it started from.
C10_Witness ==
    /\ Returned
    /\ RLt(tolerance, One)
    /\ steps >= 2
    /\ within
    /\ newton_f # start_f
    /\ newton_f = Iterate(objective, start_f, steps)

\* newton_optimize returned NaN: the norm of the last step was NaN.
ReturnedNaN == Returned /\ IsNaN(newton_f) /\ ~within /\ RLt(tolerance, One)

\* The two-cycle 0 -> 1 -> 0 of the Newton map of "cycle": steps of norm 1
\* for ever.
Cycling == objective = "cycle" /\ RLt(tolerance, One)
NeverReturnsInCycle == [](Cycling => [](newton_pc = "while_loop"))

-----------------------------------------------------------------------------
(***************************************************************************)
(* The specifications: one caller session per group of functions.          *)
(***************************************************************************)

InitFlat == FlatInit /\ LinIdle /\ NormIdle /\ UpdIdle /\ KernIdle /\ EntryIdle /\ LapIdle
        /\ NewtonIdle
SpecFlat == InitFlat /\ [][FlatNext]_vars

InitLinAlg == LinInit /\ FlatIdle /\ NormIdle /\ UpdIdle /\ KernIdle /\ EntryIdle /\ LapIdle
        /\ NewtonIdle
SpecLinAlg == InitLinAlg /\ [][LinNext]_vars

InitNormals == NormInit /\ FlatIdle /\ LinIdle /\ UpdIdle /\ KernIdle /\ EntryIdle /\ LapIdle
        /\ NewtonIdle
SpecNormals == InitNormals /\ [][NormNext]_vars

InitUpdate == UpdInit /\ FlatIdle /\ LinIdle /\ NormIdle /\ KernIdle /\ EntryIdle /\ LapIdle
        /\ NewtonIdle
SpecUpdate == InitUpdate /\ [][UpdNext]_vars

InitKernels == KernInit /\ FlatIdle /\ LinIdle /\ NormIdle /\ UpdIdle /\ EntryIdle /\ LapIdle
        /\ NewtonIdle
SpecKernels == InitKernels /\ [][KernNext]_vars

InitEntry == EntryInit /\ FlatIdle /\ LinIdle /\ NormIdle /\ UpdIdle /\ KernIdle /\ LapIdle
        /\ NewtonIdle
SpecEntry == InitEntry /\ [][EntryNext]_vars

InitLaplace == LapInit /\ FlatIdle /\ LinIdle /\ NormIdle /\ UpdIdle /\ KernIdle /\ EntryIdle
        /\ NewtonIdle
SpecLaplace == InitLaplace /\ [][LapNext]_vars

\* newton_optimize runs on: once the loop condition is false, it returns.
InitNewton == NewtonInit /\ FlatIdle /\ LinIdle /\ NormIdle /\ UpdIdle /\ KernIdle /\ EntryIdle
        /\ LapIdle
SpecNewton == InitNewton /\ [][NewtonNext]_vars /\ WF_vars(ReturnResult)

=============================================================================
